---- MODULE Spec2Model ----
(***************************************************************************)
(* Two independent programs of the repository:                            *)
(*   - FragileToken, the fungible ledger (src/stellar-soroban/src/lib.rs)  *)
(*   - vault, the custodial vault                                          *)
(*     (src/solana-program/programs/vault/src/lib.rs)                      *)
(* Each has its own specification (SpecLedger, SpecVault); the variables   *)
(* of the other program keep their initial values.                         *)
(***************************************************************************)
EXTENDS Integers, Sequences, FiniteSets, TLC

\* ------------------------------------------------------------------ bounds
\* u64 is modelled with a small ceiling: values range over 0..U64_MAX and an
\* addition that exceeds U64_MAX overflows.
U64_MAX == 2
\* number of top-level ledger calls explored
MaxCalls == 3

\* ------------------------------------------------------------- identities
None == "none"
Addrs == {"a1", "a2", "a3"}
\* the identities that own, spend, send and administer; the third only receives
Holders == {"a1", "a2"}
U64 == 0..U64_MAX
\* the amounts passed to the entry points: none, one, and the largest u64
Amounts == {0, 1, U64_MAX}

VARIABLES
  \* ---- FragileToken instance storage (DataKey)
  owner,            \* DataKey::Owner        (None while unset)
  admin,            \* DataKey::Admin        (None while unset)
  total_supply,     \* DataKey::TotalSupply
  balances,         \* DataKey::Balance(a)
  allowances,       \* DataKey::Allowance(o, s)
  nonces,           \* DataKey::Nonce(a)
  \* ---- the latest top-level ledger call
  op,               \* its entry point
  result,           \* "ok" or the panic message
  events,           \* the events it published
  env,              \* its Env: the invoker and the transaction source account
  ncalls,           \* number of top-level calls made so far
  overflow_checks,  \* build profile: does u64 overflow panic (TRUE) or wrap
  \* ---- history of the allowances
  granted,          \* per (owner, spender): the value approve or permit wrote last
  moved,            \* per (owner, spender): the amounts of the successful
                    \* transfer_from calls of the spender since that write
  \* ---- vault: the VaultState accounts and the instruction in progress
  state,            \* the VaultState accounts, by the mint key that seeds their address
  vpc,              \* "idle", or the token transfer the instruction waits in
  vframe,           \* the instruction in progress / the latest one
  vop,              \* the latest instruction
  vresult,          \* "ok", "pending" or its error
  observed,         \* total_deposits as read by calls nested in the transfer
  \* ---- history
  net_deposits      \* per VaultState: the amounts of the deposits that succeeded
                    \* minus the amounts of the withdrawals that succeeded

ledger_vars == <<owner, admin, total_supply, balances, allowances, nonces,
                 op, result, events, env, ncalls, overflow_checks, granted, moved>>
vault_vars == <<state, vpc, vframe, vop, vresult, observed, net_deposits>>
vars == <<ledger_vars, vault_vars>>

\* ===================================================================
\*  FragileToken  (src/stellar-soroban/src/lib.rs)
\* ===================================================================

\* the instance storage as one value
Store ==
  [owner |-> owner, admin |-> admin, total_supply |-> total_supply,
   balances |-> balances, allowances |-> allowances, nonces |-> nonces]

\* storage helpers; a missing key reads as 0 (unwrap_or(0))
read_addr(st, k) == IF k = "Owner" THEN st.owner ELSE st.admin
write_addr(st, k, v) ==
  IF k = "Owner" THEN [st EXCEPT !.owner = v] ELSE [st EXCEPT !.admin = v]
read_bal(st, a) == st.balances[a]
write_bal(st, a, v) == [st EXCEPT !.balances[a] = v]
read_allow(st, o, s) == st.allowances[o][s]
write_allow(st, o, s, v) == [st EXCEPT !.allowances[o][s] = v]
read_nonce(st, a) == st.nonces[a]

\* an addition that wraps around at the ceiling
wrapping_add(x, y) == (x + y) % (U64_MAX + 1)

\* u64::saturating_add, u64::saturating_sub
saturating_add(x, y) == IF x + y > U64_MAX THEN U64_MAX ELSE x + y
saturating_sub(x, y) == IF x < y THEN 0 ELSE x - y

\* u64 `+`: the sum when it fits; otherwise a panic when the build checks
\* overflow and the wrapped value when it does not
Overflow == -1
U64Add(x, y) ==
  IF x + y <= U64_MAX THEN x + y
  ELSE IF overflow_checks THEN Overflow
  ELSE (x + y) % (U64_MAX + 1)

\* A running call: the working storage, the events published so far and
\* "run", or the panic message once it has panicked.
Enter(st) == [st |-> st, ev |-> <<>>, res |-> "run"]
Panic(fr, msg) == [fr EXCEPT !.res = msg]
Publish(fr, e) == [fr EXCEPT !.ev = Append(@, e)]

XferEvent(from, to, amount) ==
  [topic |-> "xfer", from |-> from, to |-> to, amount |-> amount]

\* init that refuses a ledger whose owner is already set
do_init_guarded(fr, o, a, supply) ==
  IF read_addr(fr.st, "Owner") # None THEN Panic(fr, "already initialized")
  ELSE LET s1 == write_addr(fr.st, "Owner", o)
           s2 == write_addr(s1, "Admin", a)
           s3 == [s2 EXCEPT !.total_supply = supply]
       IN  [fr EXCEPT !.st = write_bal(s3, o, supply)]

do_init(fr, o, a, supply) ==
  LET s1 == write_addr(fr.st, "Owner", o)
      s2 == write_addr(s1, "Admin", a)
      s3 == [s2 EXCEPT !.total_supply = supply]
  IN  [fr EXCEPT !.st = write_bal(s3, o, supply)]

\* approve that adds to the allowance instead of overwriting it
do_approve_adding(fr, o, s, amount) ==
  [fr EXCEPT !.st = write_allow(fr.st, o, s,
                      saturating_add(read_allow(fr.st, o, s), amount))]

do_approve(fr, o, s, amount) ==
  [fr EXCEPT !.st = write_allow(fr.st, o, s, amount)]

\* transfer that validates the balance before it publishes the event
do_transfer_validate_first(fr, from, to, amount) ==
  LET from_bal == read_bal(fr.st, from)
  IN  IF from_bal < amount THEN Panic(fr, "insufficient")
      ELSE LET f1 == Publish(fr, XferEvent(from, to, amount))
               s2 == write_bal(f1.st, from, from_bal - amount)
               sum == U64Add(read_bal(s2, to), amount)
           IN  IF sum = Overflow
               THEN Panic([f1 EXCEPT !.st = s2], "overflow")
               ELSE [f1 EXCEPT !.st = write_bal(s2, to, sum)]

do_transfer(fr, from, to, amount) ==
  LET f1 == Publish(fr, XferEvent(from, to, amount))
      from_bal == read_bal(f1.st, from)
  IN  IF from_bal < amount THEN Panic(f1, "insufficient")
      ELSE LET s2 == write_bal(f1.st, from, from_bal - amount)
               to_bal == read_bal(s2, to)
               sum == U64Add(to_bal, amount)
           IN  IF sum = Overflow
               THEN Panic([f1 EXCEPT !.st = s2], "overflow")
               ELSE [f1 EXCEPT !.st = write_bal(s2, to, sum)]

\* transfer_from that swallows the failure of the transfer it delegates to
do_transfer_from_swallowing(fr, spender, o, to, amount) ==
  LET allow == read_allow(fr.st, o, spender)
      f1 == IF spender # o
            THEN [fr EXCEPT !.st = write_allow(fr.st, o, spender, allow - amount)]
            ELSE fr
      t == do_transfer(f1, o, to, amount)
  IN  IF spender # o /\ allow < amount THEN Panic(fr, "no allow")
      ELSE IF t.res = "run" THEN t
      ELSE [f1 EXCEPT !.ev = t.ev]

\* transfer_from that checks the allowance and leaves it as it is
do_transfer_from_unmetered(fr, spender, o, to, amount) ==
  LET allow == read_allow(fr.st, o, spender)
  IN  IF spender # o /\ allow < amount THEN Panic(fr, "no allow")
      ELSE do_transfer(fr, o, to, amount)

\* transfer_from that checks the allowance of the owner itself too
do_transfer_from_no_bypass(fr, spender, o, to, amount) ==
  LET allow == read_allow(fr.st, o, spender)
  IN  IF allow < amount THEN Panic(fr, "no allow")
      ELSE do_transfer(
             [fr EXCEPT !.st = write_allow(fr.st, o, spender, allow - amount)],
             o, to, amount)

do_transfer_from(fr, spender, o, to, amount) ==
  LET allow == read_allow(fr.st, o, spender)
  IN  IF spender # o
      THEN IF allow < amount THEN Panic(fr, "no allow")
           ELSE do_transfer(
                  [fr EXCEPT !.st = write_allow(fr.st, o, spender, allow - amount)],
                  o, to, amount)
      ELSE do_transfer(fr, o, to, amount)

\* the check of mint with a missing transaction source counting as a mismatch
mint_authorized_strict(adm, invoker, tx_source) ==
  \/ adm = invoker
  \/ (tx_source # None /\ adm = tx_source)

\* admin == invoker, or admin == tx_source_account().unwrap_or(admin)
mint_authorized(adm, invoker, tx_source) ==
  \/ adm = invoker
  \/ adm = (IF tx_source = None THEN adm ELSE tx_source)

do_mint(fr, to, amount, invoker, tx_source) ==
  LET adm == read_addr(fr.st, "Admin")
  IN  IF adm = None THEN Panic(fr, "unwrap")
      ELSE IF ~mint_authorized(adm, invoker, tx_source) THEN Panic(fr, "not admin")
      ELSE LET ts == U64Add(fr.st.total_supply, amount)
           IN  IF ts = Overflow THEN Panic(fr, "overflow")
               ELSE LET s1 == [fr.st EXCEPT !.total_supply = ts]
                        bal == U64Add(read_bal(s1, to), amount)
                    IN  IF bal = Overflow
                        THEN Panic([fr EXCEPT !.st = s1], "overflow")
                        ELSE [fr EXCEPT !.st = write_bal(s1, to, bal)]

\* the check of set_admin with a missing transaction source defaulting to
\* the owner, as in mint
set_admin_authorized_as_mint(own, invoker, tx_source) ==
  \/ own = invoker
  \/ own = (IF tx_source = None THEN own ELSE tx_source)

\* owner == invoker, or tx_source_account().map(|a| a == owner).unwrap_or(false)
set_admin_authorized(own, invoker, tx_source) ==
  \/ own = invoker
  \/ (IF tx_source = None THEN FALSE ELSE tx_source = own)

do_set_admin(fr, new_admin, invoker, tx_source) ==
  LET own == read_addr(fr.st, "Owner")
  IN  IF own = None THEN Panic(fr, "unwrap")
      ELSE IF ~set_admin_authorized(own, invoker, tx_source)
           THEN Panic(fr, "not owner")
      ELSE [fr EXCEPT !.st = write_addr(fr.st, "Admin", new_admin)]

\* the signed payload, its digest (sha256 of the serialized payload, taken
\* as collision free) and signatures
Payload(o, s, amount, nonce) == <<"PERMIT", o, s, amount, nonce>>
sha256(bytes) == [sha256 |-> bytes]
Sign(signer, digest) == [signer |-> signer, digest |-> digest]
verify(signer, digest, sig) == sig = Sign(signer, digest)

\* permit that advances the nonce it consumed
do_permit_advancing_nonce(fr, o, s, amount, sig) ==
  LET nonce == read_nonce(fr.st, o)
      msg_hash == sha256(Payload(o, s, amount, nonce))
  IN  IF ~verify(o, msg_hash, sig) THEN Panic(fr, "bad sig")
      ELSE [fr EXCEPT !.st = [write_allow(fr.st, o, s, amount)
                                EXCEPT !.nonces[o] = (nonce + 1) % (U64_MAX + 1)]]

do_permit(fr, o, s, amount, sig) ==
  LET nonce == read_nonce(fr.st, o)
      msg_hash == sha256(Payload(o, s, amount, nonce))
  IN  IF ~verify(o, msg_hash, sig) THEN Panic(fr, "bad sig")
      ELSE [fr EXCEPT !.st = write_allow(fr.st, o, s, amount)]

\* the pure reads
balance_of(who) == read_bal(Store, who)
allowance(o, s) == read_allow(Store, o, s)

\* The host runs entry point `name` to the outcome `out`: the writes of a
\* call that returns are kept, those of a call that panics are discarded.
Committed(out) == IF out.res = "run" THEN out.st ELSE Store

Call(name, e, out) ==
  /\ ncalls < MaxCalls
  /\ ncalls' = ncalls + 1
  /\ op' = name
  /\ env' = e
  /\ result' = (IF out.res = "run" THEN "ok" ELSE out.res)
  /\ events' = out.ev
  /\ LET st == Committed(out)
     IN  /\ owner' = st.owner
         /\ admin' = st.admin
         /\ total_supply' = st.total_supply
         /\ balances' = st.balances
         /\ allowances' = st.allowances
         /\ nonces' = st.nonces
  /\ UNCHANGED <<overflow_checks, vault_vars>>

Invoke(name, e, out) == Call(name, e, out) /\ UNCHANGED <<granted, moved>>

\* ---- the entry points; e is the Env of the call, recorded for the entry
\* points that read it and for approve (NoEnv for the others)
NoEnv == [invoker |-> None, tx_source |-> None]
init(o, a, supply) == Invoke("init", NoEnv, do_init(Enter(Store), o, a, supply))
approve(e, o, s, amount) ==
  Invoke("approve", e, do_approve(Enter(Store), o, s, amount))
transfer(from, to, amount) ==
  Invoke("transfer", NoEnv, do_transfer(Enter(Store), from, to, amount))
transfer_from(spender, o, to, amount) ==
  Invoke("transfer_from", NoEnv, do_transfer_from(Enter(Store), spender, o, to, amount))
mint(e, to, amount) ==
  Invoke("mint", e, do_mint(Enter(Store), to, amount, e.invoker, e.tx_source))
set_admin(e, new_admin) ==
  Invoke("set_admin", e, do_set_admin(Enter(Store), new_admin, e.invoker, e.tx_source))
permit(o, s, amount, sig) ==
  Invoke("permit", NoEnv, do_permit(Enter(Store), o, s, amount, sig))

\* the entry points that write or consume allowances, with the history
approve_counted(e, o, s, amount) ==
  /\ Call("approve", e, do_approve(Enter(Store), o, s, amount))
  /\ granted' = [granted EXCEPT ![o][s] = amount]
  /\ moved' = [moved EXCEPT ![o][s] = 0]
permit_counted(o, s, amount, sig) ==
  /\ Call("permit", NoEnv, do_permit(Enter(Store), o, s, amount, sig))
  /\ granted' = IF result' = "ok" THEN [granted EXCEPT ![o][s] = amount] ELSE granted
  /\ moved' = IF result' = "ok" THEN [moved EXCEPT ![o][s] = 0] ELSE moved
transfer_from_counted(spender, o, to, amount) ==
  /\ Call("transfer_from", NoEnv, do_transfer_from(Enter(Store), spender, o, to, amount))
  /\ moved' = IF result' = "ok" THEN [moved EXCEPT ![o][spender] = @ + amount] ELSE moved
  /\ UNCHANGED granted

\* the signatures offered to permit(o, s, amount, _): the owner's over the
\* payload with nonce 0 and over the payload with nonce 1
Sigs(o, s, amount) ==
  {Sign(o, sha256(Payload(o, s, amount, 0))),
   Sign(o, sha256(Payload(o, s, amount, 1)))}

TxSources == Holders \cup {None}
\* e.invoker() and e.tx_source_account() of a call
Envs == [invoker : Holders, tx_source : TxSources]
\* the Envs of the calls of approve, which reads neither identity
Callers == [invoker : Holders, tx_source : {None}]

InitLedger ==
  /\ owner = None
  /\ admin = None
  /\ total_supply = 0
  /\ balances = [a \in Addrs |-> 0]
  /\ allowances = [o \in Addrs |-> [s \in Addrs |-> 0]]
  /\ nonces = [a \in Addrs |-> 0]
  /\ op = None
  /\ result = None
  /\ events = <<>>
  /\ env = NoEnv
  /\ ncalls = 0
  /\ overflow_checks \in BOOLEAN
  /\ granted = [o \in Addrs |-> [s \in Addrs |-> 0]]
  /\ moved = [o \in Addrs |-> [s \in Addrs |-> 0]]

NextLedger ==
  \/ \E o \in Holders, a \in Holders, supply \in Amounts : init(o, a, supply)
  \/ \E e \in Callers, o \in Holders, s \in Holders, amount \in Amounts :
       approve(e, o, s, amount)
  \/ \E from \in Holders, to \in Addrs, amount \in Amounts : transfer(from, to, amount)
  \/ \E spender \in Holders, o \in Holders, to \in Addrs, amount \in Amounts :
       transfer_from(spender, o, to, amount)
  \/ \E e \in Envs, to \in Holders, amount \in Amounts : mint(e, to, amount)
  \/ \E e \in Envs, new_admin \in Holders : set_admin(e, new_admin)
  \/ \E o \in Holders, s \in Holders, amount \in Amounts :
       \E sig \in Sigs(o, s, amount) : permit(o, s, amount, sig)

\* the entry points with the history of the allowances
NextAllowance ==
  \/ \E o \in Holders, a \in Holders, supply \in Amounts : init(o, a, supply)
  \/ \E e \in Callers, o \in Holders, s \in Holders, amount \in Amounts :
       approve_counted(e, o, s, amount)
  \/ \E from \in Holders, to \in Addrs, amount \in Amounts : transfer(from, to, amount)
  \/ \E spender \in Holders, o \in Holders, to \in Addrs, amount \in Amounts :
       transfer_from_counted(spender, o, to, amount)
  \/ \E e \in Envs, to \in Holders, amount \in Amounts : mint(e, to, amount)
  \/ \E e \in Envs, new_admin \in Holders : set_admin(e, new_admin)
  \/ \E o \in Holders, s \in Holders, amount \in Amounts :
       \E sig \in Sigs(o, s, amount) : permit_counted(o, s, amount, sig)

\* ===================================================================
\*  vault  (src/solana-program/programs/vault/src/lib.rs)
\* ===================================================================

\* Pubkey::default(), the value of a Pubkey field nobody assigned
DefaultPubkey == "k0"
Pubkeys == {DefaultPubkey, "k1", "k2"}
\* the keys of the mint accounts handed to the program
MintKeys == {DefaultPubkey, "k1"}
\* the signers: admin, user, payer
Signers == {"k1", "k2"}
MaxBump == 1
\* the net of the amounts deposited and withdrawn is followed within
\* -MaxNet..MaxNet
MaxNet == 3
Bumps == 0..MaxBump

\* the account data the `init` constraint allocates: all fields zeroed
ZeroedVaultState ==
  [admin |-> DefaultPubkey, mint |-> DefaultPubkey, total_deposits |-> 0, bump |-> 0]

Idle(name, res) ==
  /\ vpc' = "idle"
  /\ vop' = name
  /\ vresult' = res
  /\ observed' = <<>>

\* initialize whose `state` is created when needed (init_if_needed): an
\* account that exists is written again
initialize_if_needed(signer, mint_key, bump) ==
  /\ vpc = "idle"
  /\ state' = [m \in DOMAIN state \cup {mint_key} |->
                 IF m = mint_key
                 THEN [(IF m \in DOMAIN state THEN state[m] ELSE ZeroedVaultState)
                         EXCEPT !.admin = signer, !.bump = bump]
                 ELSE state[m]]
  /\ vframe' = [loc |-> mint_key, amount |-> 0, pre |-> 0]
  /\ Idle("initialize", "ok")
  /\ UNCHANGED <<net_deposits, ledger_vars>>

\* initialize(bump) with the Initialize accounts: `state` is created (init)
\* at the address seeded by the mint key, which fails when it exists
initialize(signer, mint_key, bump) ==
  /\ vpc = "idle"
  /\ IF mint_key \in DOMAIN state
     THEN /\ Idle("initialize", "AccountAlreadyInUse")
          /\ UNCHANGED <<state, vframe>>
     ELSE /\ state' = [m \in DOMAIN state \cup {mint_key} |->
                        IF m = mint_key
                        THEN [ZeroedVaultState EXCEPT !.admin = signer, !.bump = bump]
                        ELSE state[m]]
          /\ vframe' = [loc |-> mint_key, amount |-> 0, pre |-> 0]
          /\ Idle("initialize", "ok")
  /\ UNCHANGED <<net_deposits, ledger_vars>>

\* the account constraints of Deposit: `state` holds a VaultState,
\* has_one = mint, vault_token.mint == mint.key()
DepositAccounts(loc, mint_key, vault_token_mint) ==
  IF loc \notin DOMAIN state THEN "AccountNotInitialized"
  ELSE IF state[loc].mint # mint_key THEN "ConstraintHasOne"
  ELSE IF vault_token_mint # mint_key THEN "ConstraintRaw"
  ELSE "ok"

\* the account constraints of Withdraw: `state` holds a VaultState, has_one = mint
WithdrawAccounts(loc, mint_key) ==
  IF loc \notin DOMAIN state THEN "AccountNotInitialized"
  ELSE IF state[loc].mint # mint_key THEN "ConstraintHasOne"
  ELSE "ok"

\* deposit without the require!(amount > 0, ...)
deposit_without_amount_check(loc, mint_key, vault_token_mint, amount) ==
  /\ vpc = "idle"
  /\ LET acc == DepositAccounts(loc, mint_key, vault_token_mint)
     IN  IF acc # "ok"
         THEN Idle("deposit", acc) /\ UNCHANGED vframe
         ELSE /\ vpc' = "deposit_cpi"
              /\ vop' = "deposit"
              /\ vresult' = "pending"
              /\ observed' = <<>>
              /\ vframe' = [loc |-> loc, amount |-> amount,
                            pre |-> state[loc].total_deposits]
  /\ UNCHANGED <<state, net_deposits, ledger_vars>>

\* deposit(amount) up to the call of token::transfer
deposit(loc, mint_key, vault_token_mint, amount) ==
  /\ vpc = "idle"
  /\ LET acc == DepositAccounts(loc, mint_key, vault_token_mint)
     IN  IF acc # "ok"
         THEN Idle("deposit", acc) /\ UNCHANGED vframe
         ELSE IF ~(amount > 0)
         THEN Idle("deposit", "BadAmount") /\ UNCHANGED vframe
         ELSE /\ vpc' = "deposit_cpi"
              /\ vop' = "deposit"
              /\ vresult' = "pending"
              /\ observed' = <<>>
              /\ vframe' = [loc |-> loc, amount |-> amount,
                            pre |-> state[loc].total_deposits]
  /\ UNCHANGED <<state, net_deposits, ledger_vars>>

\* token::transfer(cpi_ctx, amount)? returns into deposit
deposit_returns(ok) ==
  /\ vpc = "deposit_cpi"
  /\ IF ok
     THEN /\ state' = [state EXCEPT ![vframe.loc].total_deposits =
                         saturating_add(@, vframe.amount)]
          /\ vresult' = "ok"
     ELSE /\ vresult' = "TokenError"
          /\ UNCHANGED state
  /\ vpc' = "idle"
  /\ UNCHANGED <<vframe, vop, observed, ledger_vars>>

deposit_transfer_returns(ok) == deposit_returns(ok) /\ UNCHANGED net_deposits

\* the same step with the amount entered in the history
deposit_transfer_returns_counted(ok) ==
  /\ deposit_returns(ok)
  /\ net_deposits' = IF ok THEN [net_deposits EXCEPT ![vframe.loc] = @ + vframe.amount]
                     ELSE net_deposits

\* withdraw with the counter decremented before token::transfer is called
withdraw_effects_first(loc, mint_key, amount) ==
  /\ vpc = "idle"
  /\ WithdrawAccounts(loc, mint_key) = "ok"
  /\ amount > 0
  /\ vpc' = "withdraw_cpi"
  /\ vop' = "withdraw"
  /\ vresult' = "pending"
  /\ observed' = <<>>
  /\ vframe' = [loc |-> loc, amount |-> amount, pre |-> state[loc].total_deposits]
  /\ state' = [state EXCEPT ![loc].total_deposits = saturating_sub(@, amount)]
  /\ UNCHANGED <<net_deposits, ledger_vars>>

\* withdraw(amount) up to the call of token::transfer
withdraw(loc, mint_key, amount) ==
  /\ vpc = "idle"
  /\ LET acc == WithdrawAccounts(loc, mint_key)
     IN  IF acc # "ok"
         THEN Idle("withdraw", acc) /\ UNCHANGED vframe
         ELSE IF ~(amount > 0)
         THEN Idle("withdraw", "BadAmount") /\ UNCHANGED vframe
         ELSE /\ vpc' = "withdraw_cpi"
              /\ vop' = "withdraw"
              /\ vresult' = "pending"
              /\ observed' = <<>>
              /\ vframe' = [loc |-> loc, amount |-> amount,
                            pre |-> state[loc].total_deposits]
  /\ UNCHANGED <<state, net_deposits, ledger_vars>>

\* token::transfer(cpi_ctx, amount)? returns into withdraw
withdraw_returns(ok) ==
  /\ vpc = "withdraw_cpi"
  /\ IF ok
     THEN /\ state' = [state EXCEPT ![vframe.loc].total_deposits =
                         saturating_sub(@, vframe.amount)]
          /\ vresult' = "ok"
     ELSE /\ vresult' = "TokenError"
          /\ UNCHANGED state
  /\ vpc' = "idle"
  /\ UNCHANGED <<vframe, vop, observed, ledger_vars>>

withdraw_transfer_returns(ok) == withdraw_returns(ok) /\ UNCHANGED net_deposits

\* the same step with the amount entered in the history
withdraw_transfer_returns_counted(ok) ==
  /\ withdraw_returns(ok)
  /\ net_deposits' = IF ok THEN [net_deposits EXCEPT ![vframe.loc] = @ - vframe.amount]
                     ELSE net_deposits

\* a call into the vault made while token::transfer runs reads the account
nested_call ==
  /\ vpc \in {"deposit_cpi", "withdraw_cpi"}
  /\ observed' = <<state[vframe.loc].total_deposits>>
  /\ UNCHANGED <<state, vpc, vframe, vop, vresult, net_deposits, ledger_vars>>

\* set_admin without the require!(payer == admin, ...)
vault_set_admin_unchecked(loc, payer, new_admin) ==
  /\ vpc = "idle"
  /\ IF loc \notin DOMAIN state
     THEN Idle("set_admin", "AccountNotInitialized") /\ UNCHANGED state
     ELSE /\ state' = [state EXCEPT ![loc].admin = new_admin]
          /\ Idle("set_admin", "ok")
  /\ UNCHANGED <<vframe, net_deposits, ledger_vars>>

vault_set_admin(loc, payer, new_admin) ==
  /\ vpc = "idle"
  /\ IF loc \notin DOMAIN state
     THEN Idle("set_admin", "AccountNotInitialized") /\ UNCHANGED state
     ELSE IF ~(payer = state[loc].admin)
     THEN Idle("set_admin", "NotAdmin") /\ UNCHANGED state
     ELSE /\ state' = [state EXCEPT ![loc].admin = new_admin]
          /\ Idle("set_admin", "ok")
  /\ UNCHANGED <<vframe, net_deposits, ledger_vars>>

\* exec(data) logs the length of data
exec(loc, len) ==
  /\ vpc = "idle"
  /\ IF loc \notin DOMAIN state
     THEN Idle("exec", "AccountNotInitialized")
     ELSE Idle("exec", "ok")
  /\ UNCHANGED <<state, vframe, net_deposits, ledger_vars>>

InitVault ==
  /\ state = [m \in {} |-> ZeroedVaultState]
  /\ vpc = "idle"
  /\ vframe = [loc |-> DefaultPubkey, amount |-> 0, pre |-> 0]
  /\ vop = None
  /\ vresult = None
  /\ observed = <<>>
  /\ net_deposits = [m \in MintKeys |-> 0]

NextVault ==
  \/ \E signer \in Signers, mint_key \in MintKeys, bump \in Bumps :
       initialize(signer, mint_key, bump)
  \/ \E loc \in MintKeys, mint_key \in MintKeys, vtm \in MintKeys, amount \in Amounts :
       deposit(loc, mint_key, vtm, amount)
  \/ \E ok \in BOOLEAN : deposit_transfer_returns(ok)
  \/ \E loc \in MintKeys, mint_key \in MintKeys, amount \in Amounts :
       withdraw(loc, mint_key, amount)
  \/ \E ok \in BOOLEAN : withdraw_transfer_returns(ok)
  \/ nested_call
  \/ \E loc \in MintKeys, payer \in Signers, new_admin \in Signers :
       vault_set_admin(loc, payer, new_admin)
  \/ \E loc \in MintKeys, len \in 0..1 : exec(loc, len)

\* the deposits and withdrawals of the vault with their history, the net
\* amount kept within -MaxNet..MaxNet; the admin and the bump, which neither
\* instruction reads, are those of one signer
NextNet ==
  \/ \E mint_key \in MintKeys : initialize("k1", mint_key, 0)
  \/ \E loc \in MintKeys, mint_key \in MintKeys, vtm \in MintKeys, amount \in Amounts :
       /\ net_deposits[loc] + amount <= MaxNet
       /\ deposit(loc, mint_key, vtm, amount)
  \/ \E ok \in BOOLEAN : deposit_transfer_returns_counted(ok)
  \/ \E loc \in MintKeys, mint_key \in MintKeys, amount \in Amounts :
       /\ net_deposits[loc] - amount >= -MaxNet
       /\ withdraw(loc, mint_key, amount)
  \/ \E ok \in BOOLEAN : withdraw_transfer_returns_counted(ok)

Init == InitLedger /\ InitVault
SpecLedger == Init /\ [][NextLedger]_vars
SpecVault == Init /\ [][NextVault]_vars
SpecNet == Init /\ [][NextNet]_vars
SpecAllowance == Init /\ [][NextAllowance]_vars

\* ===================================================================
\*  Claims
\* ===================================================================

\* C1: in withdraw(amount > 0) the token transfer is invoked before
\* total_deposits is decremented: while the transfer runs, the counter (and
\* what a call nested in the transfer reads) is still the value from before
\* the withdraw; it stays so when the transfer fails, and it is decremented
\* (saturating) once the transfer has returned successfully.
C1_TransferBeforeDecrement ==
  /\ vpc = "withdraw_cpi" =>
       /\ vframe.amount > 0
       /\ state[vframe.loc].total_deposits = vframe.pre
       /\ \A i \in 1..Len(observed) : observed[i] = vframe.pre
  /\ (vop = "withdraw" /\ vpc = "idle" /\ vresult = "TokenError") =>
       state[vframe.loc].total_deposits = vframe.pre
  /\ (vop = "withdraw" /\ vpc = "idle" /\ vresult = "ok") =>
       /\ state[vframe.loc].total_deposits = saturating_sub(vframe.pre, vframe.amount)
       /\ \A i \in 1..Len(observed) : observed[i] = vframe.pre

\* a withdraw of a positive amount from a positive counter has returned; a
\* call nested in its transfer read the counter, which is now smaller
C1_Witness ==
  /\ vop = "withdraw" /\ vpc = "idle" /\ vresult = "ok"
  /\ vframe.pre > 0
  /\ observed = <<vframe.pre>>
  /\ state[vframe.loc].total_deposits < vframe.pre

\* C2: transfer publishes its event before it checks balances[from]: every
\* transfer call, also one that fails with balances[from] < amount and
\* changes no balance, has published the one event that describes it.
C2_EventBeforeBalanceCheck ==
  [][op' = "transfer" =>
       /\ Len(events') = 1
       /\ LET ev == events'[1]
          IN  /\ ev.topic = "xfer"
              /\ transfer(ev.from, ev.to, ev.amount)
              /\ balances[ev.from] < ev.amount =>
                   (result' = "insufficient" /\ balances' = balances)]_vars

\* a transfer was rejected for its balance, and its event is published
C2_Witness ==
  /\ op = "transfer" /\ result = "insufficient"
  /\ Len(events) = 1
  /\ balances[events[1].from] < events[1].amount

\* the owner's signature over the permit payload with the initial nonce
FirstSig(o, s, amount) == Sign(o, sha256(Payload(o, s, amount, 0)))

\* C3: whatever calls were made, permits included, every nonce keeps its
\* initial value, so permit still accepts the signature it accepted first,
\* the owner's over (o, s, amount, initial nonce), and sets
\* allowances[(o, s)] to amount.
C3_PermitReplayable ==
  /\ \A a \in Addrs : nonces[a] = 0
  /\ \A o \in Holders, s \in Holders, amount \in Amounts :
       LET out == do_permit(Enter(Store), o, s, amount, FirstSig(o, s, amount))
       IN  /\ out.res = "run"
           /\ read_allow(out.st, o, s) = amount
           /\ out.st.nonces = nonces

\* a permit succeeded as the last of MaxCalls calls and set the allowance
\* that is there now
C3_Witness ==
  /\ op = "permit" /\ result = "ok" /\ ncalls >= 3
  /\ \E o \in Holders, s \in Holders : allowances[o][s] > 0

RECURSIVE SumOver(_, _)
SumOver(f, S) ==
  IF S = {} THEN 0
  ELSE LET x == CHOOSE y \in S : TRUE IN f[x] + SumOver(f, S \ {x})

\* C4: in every reachable state the sum of all balances equals total_supply.
C4_SumEqualsSupply == SumOver(balances, Addrs) = total_supply

\* C5: a failing call leaves the persisted state unchanged; so a transfer
\* with balances[from] < amount, and a transfer_from by another spender with
\* enough allowance but balances[owner] < amount, which keeps the allowance.
C5_FailedCallsChangeNothing ==
  [][/\ result' # "ok" => Store' = Store
     /\ (op' = "transfer" /\ Len(events') = 1) =>
          LET ev == events'[1]
          IN  (transfer(ev.from, ev.to, ev.amount) /\ balances[ev.from] < ev.amount)
                => result' = "insufficient"
     /\ (op' = "transfer_from" /\ Len(events') = 1) =>
          LET ev == events'[1]
          IN  \A spender \in Holders \ {ev.from} :
                (/\ transfer_from(spender, ev.from, ev.to, ev.amount)
                 /\ allowances[ev.from][spender] >= ev.amount
                 /\ balances[ev.from] < ev.amount)
                  => (result' = "insufficient" /\ allowances' = allowances)]_vars

\* a transfer_from was rejected for the owner's balance while every other
\* spender holds an allowance that covers the amount
C5_Witness ==
  /\ op = "transfer_from" /\ result = "insufficient"
  /\ Len(events) = 1
  /\ LET o == events[1].from
         amount == events[1].amount
     IN  /\ o \in Holders
         /\ balances[o] < amount
         /\ \A s \in Holders \ {o} : allowances[o][s] >= amount

\* C6: with an admin stored, mint is refused as "not admin" exactly when the
\* admin is neither the invoker nor the transaction source and a transaction
\* source is available; a refused mint changes no supply and no balance.
C6_MintAuthorization ==
  [][(op' = "mint" /\ admin # None) =>
       LET authorized == \/ admin = env'.invoker
                         \/ admin = env'.tx_source
                         \/ env'.tx_source = None
       IN  /\ (result' = "not admin") <=> ~authorized
           /\ ~authorized => (total_supply' = total_supply /\ balances' = balances)
           /\ authorized => result' \in {"ok", "overflow"}]_vars

\* a mint by an invoker who is not the admin succeeded, no transaction
\* source being available
C6_Witness ==
  /\ op = "mint" /\ result = "ok"
  /\ env.tx_source = None
  /\ env.invoker # admin
  /\ total_supply > 0

\* C7 as stated: set_admin is authorized iff owner is the invoker, or the
\* transaction source, or no transaction source is available.
C7_AuthorizedAsMint ==
  [][(op' = "set_admin" /\ owner # None) =>
       LET authorized == \/ owner = env'.invoker
                         \/ owner = env'.tx_source
                         \/ env'.tx_source = None
       IN  IF authorized
           THEN /\ result' = "ok" /\ owner' = owner
                /\ \A new_admin \in Addrs :
                     set_admin(env', new_admin) => admin' = new_admin
           ELSE result' = "not owner" /\ admin' = admin]_vars

\* C7 amended: set_admin is authorized iff owner is the invoker, or a
\* transaction source is available and is the owner; then admin becomes
\* new_admin and owner is unchanged, otherwise the call aborts and admin is
\* unchanged.
C7_SetAdminAuthorization ==
  [][(op' = "set_admin" /\ owner # None) =>
       LET authorized == \/ owner = env'.invoker
                         \/ (env'.tx_source # None /\ env'.tx_source = owner)
       IN  IF authorized
           THEN /\ result' = "ok" /\ owner' = owner
                /\ \A new_admin \in Addrs :
                     set_admin(env', new_admin) => admin' = new_admin
           ELSE result' = "not owner" /\ admin' = admin /\ owner' = owner]_vars

\* a set_admin by an invoker who is not the owner was refused, no
\* transaction source being available
C7_Witness ==
  /\ op = "set_admin" /\ result = "not owner"
  /\ env.tx_source = None
  /\ owner # None /\ env.invoker # owner

\* C8: approve succeeds for every caller in every state and sets
\* allowances[(o, s)] to exactly amount, changing nothing else.
C8_ApproveUnauthenticated ==
  [][op' = "approve" =>
       /\ result' = "ok"
       /\ balances' = balances /\ total_supply' = total_supply
       /\ owner' = owner /\ admin' = admin /\ nonces' = nonces
       /\ \A o \in Holders, s \in Holders, amount \in Amounts :
            approve(env', o, s, amount) =>
              /\ allowances'[o][s] = amount
              /\ \A o2 \in Addrs, s2 \in Addrs :
                   <<o2, s2>> # <<o, s>> => allowances'[o2][s2] = allowances[o2][s2]]_vars

\* an approve invoked by somebody other than the stored owner has set the
\* only allowance there is, the owner's for another spender, to 1
C8_Witness ==
  /\ op = "approve" /\ result = "ok"
  /\ owner # None /\ env.invoker # owner
  /\ \E s \in Holders \ {owner} :
       \A o2 \in Addrs, s2 \in Addrs :
         allowances[o2][s2] = (IF <<o2, s2>> = <<owner, s>> THEN 1 ELSE 0)

\* the result of a call that ran to the outcome `out`
ResultOf(out) == IF out.res = "run" THEN "ok" ELSE out.res

\* C9: transfer_from by the owner itself leaves the allowances alone and
\* behaves as transfer(owner, to, amount); by another spender it fails with
\* "no allow" when the allowance is below amount, and otherwise behaves as
\* transfer(owner, to, amount) with the allowance decreased by exactly amount.
C9_TransferFrom ==
  [][op' = "transfer_from" =>
       IF events' = <<>>
       THEN \* the call ended before transfer was entered
            /\ result' = "no allow" /\ Store' = Store
            /\ \A spender \in Holders, o \in Holders, amount \in Amounts :
                 (spender = o \/ allowances[o][spender] >= amount) =>
                   \A to \in Addrs : ~transfer_from(spender, o, to, amount)
       ELSE \* transfer was entered and published the event of its call
            LET o == events'[1].from
                to == events'[1].to
                amount == events'[1].amount
                t == do_transfer(Enter(Store), o, to, amount)
            IN  /\ result' = ResultOf(t)
                /\ events' = t.ev
                /\ balances' = Committed(t).balances
                /\ \A spender \in Holders :
                     transfer_from(spender, o, to, amount) =>
                       IF spender = o THEN allowances' = allowances
                       ELSE /\ allowances[o][spender] >= amount
                            /\ allowances' =
                                 IF result' = "ok"
                                 THEN [allowances EXCEPT ![o][spender] = @ - amount]
                                 ELSE allowances]_vars

\* after init(a1, a2, 2) and approve(a1, a2, 2), transfer_from(a2, a1, a3, 1)
\* has left balance_of(a1) = 1, balance_of(a3) = 1, allowance(a1, a2) = 1
C9_Witness ==
  /\ op = "transfer_from" /\ result = "ok"
  /\ events = <<XferEvent("a1", "a3", 1)>>
  /\ owner = "a1" /\ total_supply = 2
  /\ balance_of("a1") = 1 /\ balance_of("a2") = 0 /\ balance_of("a3") = 1
  /\ allowance("a1", "a2") = 1

\* C10: a transfer(from, to, amount) with balances[from] >= amount succeeds,
\* moves amount from `from` to `to` (nothing when from = to) and leaves
\* total_supply, the other balances and the allowances unchanged.
C10_TransferMoves ==
  [][(op' = "transfer" /\ Len(events') = 1) =>
       LET from == events'[1].from
           to == events'[1].to
           amount == events'[1].amount
       IN  (transfer(from, to, amount) /\ balances[from] >= amount) =>
             /\ result' = "ok"
             /\ IF from = to THEN balances' = balances
                ELSE /\ balances'[from] = balances[from] - amount
                     /\ balances'[to] = balances[to] + amount
                     /\ \A a \in Addrs \ {from, to} : balances'[a] = balances[a]
             /\ total_supply' = total_supply
             /\ allowances' = allowances]_vars

\* C11: immediately after any init(A, B, s): owner() = A, admin() = B,
\* total_supply() = s, balance_of(A) = s and balance_of(X) = 0 for every
\* identity X other than A.
C11_AfterInit ==
  [][op' = "init" =>
       \A o \in Holders, a \in Holders, supply \in Amounts :
         init(o, a, supply) =>
           /\ result' = "ok"
           /\ owner' = o /\ admin' = a /\ total_supply' = supply
           /\ balances'[o] = supply
           /\ \A x \in Addrs \ {o} : balances'[x] = 0]_vars

\* C12: init is never rejected: in a ledger that is already initialized too
\* it succeeds, overwrites owner, admin, total_supply and the balance of the
\* new owner, and leaves every other balance, every allowance and every
\* nonce as they were.
C12_InitOverwrites ==
  [][op' = "init" =>
       /\ result' = "ok"
       /\ allowances' = allowances /\ nonces' = nonces
       /\ \A o \in Holders, a \in Holders, supply \in Amounts :
            init(o, a, supply) =>
              /\ owner' = o /\ admin' = a /\ total_supply' = supply
              /\ balances' = [balances EXCEPT ![o] = supply]]_vars

\* an init has replaced an owner who keeps a balance, as the third call
\* made; an allowance written in between is still there
C12_Witness ==
  /\ op = "init" /\ result = "ok" /\ ncalls = 3
  /\ \E x \in Holders \ {owner} : balances[x] > 0
  /\ \E o \in Holders, s \in Holders : allowances[o][s] > 0

\* C13 as stated: deposit(0) and withdraw(0) always fail with BadAmount,
\* before any token transfer is invoked, and leave the VaultState unchanged.
C13_ZeroIsBadAmount ==
  [][vpc = "idle" =>
       /\ vop' = "deposit" =>
          \A loc \in MintKeys, mint_key \in MintKeys, vtm \in MintKeys :
            deposit(loc, mint_key, vtm, 0) =>
              (vresult' = "BadAmount" /\ vpc' = "idle" /\ state' = state)
       /\ vop' = "withdraw" =>
          \A loc \in MintKeys, mint_key \in MintKeys :
            withdraw(loc, mint_key, 0) =>
              (vresult' = "BadAmount" /\ vpc' = "idle" /\ state' = state)]_vars

\* C13 amended: deposit(0) and withdraw(0) always fail before any token
\* transfer is invoked and leave the VaultState unchanged; the error is
\* BadAmount when the accounts pass the constraints of the instruction and
\* the error of the failed constraint otherwise.
C13_ZeroRejected ==
  [][vpc = "idle" =>
       /\ vop' = "deposit" =>
          \A loc \in MintKeys, mint_key \in MintKeys, vtm \in MintKeys :
            deposit(loc, mint_key, vtm, 0) =>
              LET acc == DepositAccounts(loc, mint_key, vtm)
              IN  /\ vresult' = (IF acc = "ok" THEN "BadAmount" ELSE acc)
                  /\ vpc' = "idle" /\ state' = state
       /\ vop' = "withdraw" =>
          \A loc \in MintKeys, mint_key \in MintKeys :
            withdraw(loc, mint_key, 0) =>
              LET acc == WithdrawAccounts(loc, mint_key)
              IN  /\ vresult' = (IF acc = "ok" THEN "BadAmount" ELSE acc)
                  /\ vpc' = "idle" /\ state' = state]_vars

\* a withdraw was refused with BadAmount while a counter is positive
C13_Witness ==
  /\ vop = "withdraw" /\ vpc = "idle" /\ vresult = "BadAmount"
  /\ \E m \in DOMAIN state : state[m].total_deposits > 0

\* C14: a deposit(amount > 0) whose token transfer succeeded has set
\* total_deposits to min(total_deposits + amount, U64_MAX); one whose token
\* transfer failed has failed and left total_deposits unchanged.
C14_DepositSaturates ==
  /\ (vop = "deposit" /\ vpc = "idle" /\ vresult = "ok") =>
       /\ vframe.amount > 0
       /\ state[vframe.loc].total_deposits =
            (IF vframe.pre + vframe.amount <= U64_MAX
             THEN vframe.pre + vframe.amount ELSE U64_MAX)
  /\ (vop = "deposit" /\ vpc = "idle" /\ vresult = "TokenError") =>
       state[vframe.loc].total_deposits = vframe.pre
  /\ vpc = "deposit_cpi" =>
       (vframe.amount > 0 /\ state[vframe.loc].total_deposits = vframe.pre)

\* a deposit onto a positive counter succeeded with a sum beyond the ceiling
C14_Witness ==
  /\ vop = "deposit" /\ vpc = "idle" /\ vresult = "ok"
  /\ vframe.pre > 0
  /\ vframe.pre + vframe.amount > U64_MAX
  /\ state[vframe.loc].total_deposits = U64_MAX

\* C15: after any sequence of deposits and withdrawals, total_deposits is
\* the sum of the amounts of the successful deposits minus the sum of the
\* amounts of the successful withdrawals, clamped into 0..U64_MAX.
C15_NetClamped ==
  \A m \in DOMAIN state :
    state[m].total_deposits =
      (IF net_deposits[m] < 0 THEN 0
       ELSE IF net_deposits[m] > U64_MAX THEN U64_MAX
       ELSE net_deposits[m])

\* C16: set_admin(new_admin) on a VaultState succeeds iff the payer of the
\* call is the stored admin; then admin becomes new_admin and total_deposits,
\* mint and bump are unchanged; otherwise it fails with NotAdmin and the
\* VaultState is unchanged. So once the admin was changed from A to N, the
\* stored admin is N: a call paid by A is refused, one paid by N succeeds.
C16_VaultSetAdmin ==
  [][(vpc = "idle" /\ vop' = "set_admin") =>
       \A loc \in DOMAIN state, payer \in Signers, new_admin \in Signers :
         vault_set_admin(loc, payer, new_admin) =>
           IF payer = state[loc].admin
           THEN /\ vresult' = "ok"
                /\ state' = [state EXCEPT ![loc].admin = new_admin]
                /\ \A p \in Signers : (p = state'[loc].admin) <=> (p = new_admin)
           ELSE /\ vresult' = "NotAdmin"
                /\ state' = state]_vars

\* a set_admin was refused with NotAdmin on a vault that holds deposits
C16_Witness ==
  /\ vop = "set_admin" /\ vpc = "idle" /\ vresult = "NotAdmin"
  /\ \E m \in DOMAIN state : state[m].total_deposits > 0

\* C17: an authorized mint(to, amount) succeeds and increases total_supply
\* and balances[to] by amount each with saturating semantics: a sum beyond
\* U64_MAX is stored as U64_MAX, it neither wraps nor aborts the call.
C17_MintSaturates ==
  [][(op' = "mint" /\ admin # None
        /\ mint_authorized(admin, env'.invoker, env'.tx_source)) =>
       \A to \in Holders, amount \in Amounts :
         mint(env', to, amount) =>
           /\ result' = "ok"
           /\ total_supply' = saturating_add(total_supply, amount)
           /\ balances' = [balances EXCEPT ![to] = saturating_add(@, amount)]]_vars

C19_MintRecorded ==
  \A m \in DOMAIN state : state[m].mint = m

====
